---- MODULE Spec2Model ----
(***************************************************************************)
(* django-sass-finder: ScssFinder (django_sass_finder/finders.py).         *)
(*                                                                         *)
(* The finder keeps two dictionaries, source_cache (source path -> mtime   *)
(* last recorded) and files_cache (served-relative path -> output path),   *)
(* and on every find()/list() runs compile_scss(), one pass over the       *)
(* files matched by the SCSS_COMPILE globs under SCSS_ROOT.  The file      *)
(* system (sources, outputs, maps, each with a modification time taken     *)
(* from a clock) is part of the state; it changes between passes.          *)
(*                                                                         *)
(* Spec takes every call as one step.  SpecSteps follows the calls of one   *)
(* thread line by line, and SpecThreads those of two threads that share the *)
(* finder.                                                                  *)
(***************************************************************************)
EXTENDS Naturals, Sequences, FiniteSets, TLC

\* ------------------------------------------------------------- bounds
\* The clock runs from 1 to MaxTime; every write stamps the file with now.
MaxTime == 2
\* At most MaxSources entries exist under SCSS_ROOT at a time.
MaxSources == 2
\* At most MaxBad of the sources are malformed at a time.
MaxBad == 1
\* At most MaxMaps map files lie in the output directory.
MaxMaps == 1

\* ------------------------------------------------------------- paths
\* A path is a root, the directories below it and the file name split at
\* its dots: scss/admin/b.scss is the name <<"b", "scss">> in <<"admin">>.
SCSS_ROOT == "/scss"
CSS_COMPILE_DIR == "/output/css"

MkPath(root, dir, name) == [root |-> root, dir |-> dir, name |-> name]

\* The source files the model lets exist under SCSS_ROOT: two files of one
\* directory with the same stem, and one file of a subdirectory.
a_scss == MkPath(SCSS_ROOT, <<>>, <<"a", "scss">>)
a_sass == MkPath(SCSS_ROOT, <<>>, <<"a", "sass">>)
b_scss == MkPath(SCSS_ROOT, <<"admin">>, <<"b", "scss">>)
SourcePaths == {a_scss, a_sass, b_scss}

\* settings.SCSS_COMPILE: the ordered globs, all of the form **/<first>.<last>
\* with "*" for any text.  a.scss is matched by both.
scss_compile == << <<"*", "scss">>, <<"a", "*">> >>

RECURSIVE JoinWith(_, _)
JoinWith(parts, sep) ==
    IF parts = <<>> THEN ""
    ELSE IF Len(parts) = 1 THEN parts[1]
    ELSE parts[1] \o sep \o JoinWith(Tail(parts), sep)

\* PurePath.stem: the name without its last suffix.
stem(name) == IF Len(name) > 1 THEN SubSeq(name, 1, Len(name) - 1) ELSE name

\* PurePath.relative_to(root) followed by as_posix(): the path below its root.
relative_posix(path) ==
    JoinWith(path.dir \o << JoinWith(path.name, ".") >>, "/")

\* PurePath.as_posix() of an absolute path.
as_posix(path) == path.root \o "/" \o relative_posix(path)

\* ScssFinder.output_path: same directories under CSS_COMPILE_DIR, stem + '.css'.
output_path(scss_file) ==
    MkPath(CSS_COMPILE_DIR, scss_file.dir, stem(scss_file.name) \o <<"css">>)

\* mappath = outpath.parent / (outpath.stem + '.map')
map_path(outpath) ==
    MkPath(outpath.root, outpath.dir, stem(outpath.name) \o <<"map">>)

OutputPaths == {output_path(f) : f \in SourcePaths}
MapPaths == {map_path(o) : o \in OutputPaths}
AllPaths == SourcePaths \cup OutputPaths \cup MapPaths

\* ------------------------------------------------------------- files
NoFile == [kind |-> "none", mtime |-> 0, content |-> ""]
RegFile(mtime, content) == [kind |-> "reg", mtime |-> mtime, content |-> content]
\* A directory: the pass reads only its st_mode.
DirEntry == [kind |-> "dir", mtime |-> 0, content |-> ""]

\* Path.glob of one pattern: the entries of any kind under the root whose
\* name matches.
GlobMatch(pattern, path) ==
    /\ Len(path.name) > 1
    /\ pattern[1] \in {"*", JoinWith(stem(path.name), ".")}
    /\ pattern[2] \in {"*", path.name[Len(path.name)]}

Glob(files, pattern) ==
    {p \in SourcePaths : files[p].kind # "none" /\ GlobMatch(pattern, p)}

\* The orders in which a directory walk can yield a set of entries.
Orderings(S) ==
    {s \in [1..Cardinality(S) -> S] : \A i, j \in 1..Cardinality(S) : s[i] = s[j] => i = j}

\* The sequences of candidates the two nested loops of compile_scss can see:
\* pattern by pattern, each pattern's matches in some walk order.
RECURSIVE ScanOrders(_, _)
ScanOrders(files, patterns) ==
    IF patterns = <<>> THEN {<<>>}
    ELSE {h \o t : h \in Orderings(Glob(files, Head(patterns))),
                   t \in ScanOrders(files, Tail(patterns))}

\* ------------------------------------------------------------- dictionaries
EmptyDict == <<>>
Put(d, k, v) == [x \in DOMAIN d \cup {k} |-> IF x = k THEN v ELSE d[x]]
Del(d, keys) == [x \in DOMAIN d \ keys |-> d[x]]

InSeq(x, s) == \E i \in 1..Len(s) : s[i] = x

\* ------------------------------------------------------------- the pass
\* path_stat: the stat of a path, NoFile for the None an OSError gives.
path_stat(files, path) == files[path]

\* sass.compile on a source: its text raises CompileError or gives css.
SassFails(files, scss_file) == files[scss_file].content = "bad"

\* The state a pass works on: the file system, the two caches, the list of
\* checked sources, and what the pass did (sources handed to sass.compile,
\* whether an exception left the loop).
PassState(files, source_cache) ==
    [fs |-> files, source_cache |-> source_cache, files_cache |-> EmptyDict,
     checked |-> <<>>, compiled |-> {}, raised |-> FALSE]

\* Generate recording the time of the compilation instead of the source's mtime.
Generate_RecordsClock(st, scss_file, outpath, cached_mtime, clock) ==
    LET opened == [st.fs EXCEPT ![outpath] = RegFile(clock, "")]
    IN  IF SassFails(st.fs, scss_file)
        THEN [st EXCEPT !.fs = opened,
                        !.compiled = @ \cup {scss_file},
                        !.raised = TRUE]
        ELSE [st EXCEPT !.fs = [opened EXCEPT ![outpath] = RegFile(clock, "css")],
                        !.compiled = @ \cup {scss_file},
                        !.source_cache = Put(@, scss_file, clock)]

\* Generate with line 160 left out: the compiled source's mtime is not recorded.
Generate_NoRecord(st, scss_file, outpath, cached_mtime, clock) ==
    LET opened == [st.fs EXCEPT ![outpath] = RegFile(clock, "")]
    IN  IF SassFails(st.fs, scss_file)
        THEN [st EXCEPT !.fs = opened,
                        !.compiled = @ \cup {scss_file},
                        !.raised = TRUE]
        ELSE [st EXCEPT !.fs = [opened EXCEPT ![outpath] = RegFile(clock, "css")],
                        !.compiled = @ \cup {scss_file}]

\* Lines 144-160: open the output 'w+' (which creates or truncates it), compile,
\* write the text, record the mtime.  A CompileError leaves through the with
\* block: the file stays as open() left it and nothing is recorded.
Generate(st, scss_file, outpath, cached_mtime, clock) ==
    LET opened == [st.fs EXCEPT ![outpath] = RegFile(clock, "")]
    IN  IF SassFails(st.fs, scss_file)
        THEN [st EXCEPT !.fs = opened,
                        !.compiled = @ \cup {scss_file},
                        !.raised = TRUE]
        ELSE [st EXCEPT !.fs = [opened EXCEPT ![outpath] = RegFile(clock, "css")],
                        !.compiled = @ \cup {scss_file},
                        !.source_cache = Put(@, scss_file, cached_mtime)]

\* OutputUpToDate with the comparisons of lines 138 and 140 written as "not older".
OutputUpToDate_NotOlder(files, outpath, mappath, cached_mtime, want_map) ==
    LET out_stat == path_stat(files, outpath)
        map_stat == path_stat(files, mappath)
    IN  /\ out_stat # NoFile
        /\ out_stat.mtime >= cached_mtime
        /\ \/ ~want_map
           \/ (map_stat # NoFile /\ map_stat.mtime >= cached_mtime)

\* Lines 136-142: is the output on disk newer than the source (and the map too,
\* when maps are requested)?
OutputUpToDate(files, outpath, mappath, cached_mtime, want_map) ==
    LET out_stat == path_stat(files, outpath)
        map_stat == path_stat(files, mappath)
    IN  /\ out_stat # NoFile
        /\ out_stat.mtime > cached_mtime
        /\ \/ ~want_map
           \/ (map_stat # NoFile /\ map_stat.mtime > cached_mtime)

\* Unchanged with lines 127-132 left out: no candidate is skipped as unchanged.
Unchanged_NoSkip(source_cache, scss_file, scss_stat) == FALSE

\* Unchanged with the comparison of line 129 written as "older than".
Unchanged_Older(source_cache, scss_file, scss_stat) ==
    /\ scss_file \in DOMAIN source_cache
    /\ scss_stat.mtime < source_cache[scss_file]

\* Lines 127-132: the cached mtime equals the source's mtime.
Unchanged(source_cache, scss_file, scss_stat) ==
    /\ scss_file \in DOMAIN source_cache
    /\ scss_stat.mtime = source_cache[scss_file]

\* ProcessFile with line 141 left out: an output found up to date is skipped
\* without its source's mtime being recorded.
ProcessFile_NoRecord(st, scss_file, want_map, clock) ==
    LET scss_stat == path_stat(st.fs, scss_file)
    IN  IF scss_stat = NoFile THEN st
        ELSE IF scss_stat.kind # "reg" THEN st
        ELSE
          LET outpath == output_path(scss_file)
              mappath == map_path(outpath)
              st1 == [st EXCEPT !.checked = Append(@, scss_file),
                                !.files_cache = Put(@, relative_posix(outpath), outpath)]
              cached_mtime == scss_stat.mtime
          IN  IF Unchanged(st.source_cache, scss_file, scss_stat) THEN st1
              ELSE IF OutputUpToDate(st1.fs, outpath, mappath, cached_mtime, want_map)
              THEN st1
              ELSE Generate(st1, scss_file, outpath, cached_mtime, clock)

\* Lines 113-160: the body of the inner loop for one candidate.
ProcessFile(st, scss_file, want_map, clock) ==
    LET scss_stat == path_stat(st.fs, scss_file)
    IN  IF scss_stat = NoFile THEN st
        ELSE IF scss_stat.kind # "reg" THEN st
        ELSE
          LET outpath == output_path(scss_file)
              mappath == map_path(outpath)
              st1 == [st EXCEPT !.checked = Append(@, scss_file),
                                !.files_cache = Put(@, relative_posix(outpath), outpath)]
              cached_mtime == scss_stat.mtime
          IN  IF Unchanged(st.source_cache, scss_file, scss_stat) THEN st1
              ELSE IF OutputUpToDate(st1.fs, outpath, mappath, cached_mtime, want_map)
              THEN [st1 EXCEPT !.source_cache = Put(@, scss_file, cached_mtime)]
              ELSE Generate(st1, scss_file, outpath, cached_mtime, clock)

\* Lines 111-160: the loops; an exception ends them.
RECURSIVE ScanLoop(_, _, _, _)
ScanLoop(st, candidates, want_map, clock) ==
    IF candidates = <<>> \/ st.raised THEN st
    ELSE ScanLoop(ProcessFile(st, Head(candidates), want_map, clock),
                  Tail(candidates), want_map, clock)

\* Reconcile with the unlink of line 169 left out.
Reconcile_NoUnlink(st) ==
    IF st.raised THEN st
    ELSE
      LET removed == {f \in DOMAIN st.source_cache : ~InSeq(f, st.checked)}
      IN  [st EXCEPT !.source_cache = Del(@, removed)]

\* Lines 162-171: forget the cached sources that were not checked and unlink
\* their outputs.  Not reached when the loops raised.
Reconcile(st) ==
    IF st.raised THEN st
    ELSE
      LET removed == {f \in DOMAIN st.source_cache : ~InSeq(f, st.checked)}
          unlinked == {output_path(f) : f \in removed}
      IN  [st EXCEPT !.source_cache = Del(@, removed),
                     !.fs = [p \in DOMAIN @ |-> IF p \in unlinked THEN NoFile ELSE @[p]]]

\* ScssFinder.compile_scss, for one order of the directory walk.
compile_scss(files, source_cache, candidates, want_map, clock) ==
    Reconcile(ScanLoop(PassState(files, source_cache), candidates, want_map, clock))

\* ------------------------------------------------------------- state
VARIABLES
    fs,            \* the file system: path -> NoFile, a regular file or a directory
    now,           \* the clock that stamps every write
    css_map,       \* settings.CSS_MAP
    source_cache,  \* ScssFinder.source_cache: source path -> mtime recorded
    files_cache,   \* ScssFinder.files_cache: served-relative path -> output path
    call,          \* the last call made on the finder; NoCall after a change of the files
    ret,           \* what that call returned, or that it raised
    compiled,      \* the sources that call handed to sass.compile
    threads        \* the calls in progress, when calls are followed line by line

vars == <<fs, now, css_map, source_cache, files_cache, call, ret, compiled, threads>>

\* The paths find() is asked for: the served paths of the model's outputs and
\* one that no source gives.
QueryPaths == {relative_posix(o) : o \in OutputPaths} \cup {"nonexisting/path/to/somefile.css"}

\* A call: find(path, all) or list(), made while the serve_static property
\* (lines 68-71; the tests set _serve_static before each call) has the value serve.
NoCall == [op |-> "none", path |-> "", all |-> FALSE, serve |-> FALSE]
NoRet == [raised |-> FALSE, scalar |-> FALSE, items |-> <<>>]
Raised == [raised |-> TRUE, scalar |-> FALSE, items |-> <<>>]

\* The threads of the process that call the finder.
Threads == {"main", "worker"}

\* A thread's place in find()/list() and the locals of its compile_scss():
\* todo is what the loops have still to yield (its head is scss_file while pc
\* is open, compile or record), log the sources it handed to sass.compile,
\* recorded the sources whose cache entry it set, size the length the dict
\* iterator of list() remembers.
Idle ==
    [pc |-> "idle", op |-> "none", todo |-> <<>>, checked |-> <<>>,
     cached_mtime |-> 0, log |-> <<>>, recorded |-> {}, size |-> 0,
     call |-> NoCall, ret |-> NoRet]
Off == [Idle EXCEPT !.pc = "off"]

\* What can lie at a source, output or map path when the clock shows t.
SourceFiles(t) == {RegFile(u, c) : u \in 1..t, c \in {"ok", "bad"}} \cup {DirEntry}
OutputFiles(t) == {RegFile(u, "css") : u \in 1..t}
MapFiles(t) == {RegFile(u, "map") : u \in 1..t}

Entries(files) == {p \in SourcePaths : files[p] # NoFile}
Malformed(files) == {p \in SourcePaths : files[p].content = "bad"}
Maps(files) == {p \in MapPaths : files[p] # NoFile}

\* ScssFinder.__init__ (lines 47-66) over whatever the directories hold: both
\* caches empty.  Maps lie about only where maps are requested.
Init ==
    /\ now = 1
    /\ css_map \in BOOLEAN
    /\ \E src \in [SourcePaths -> {NoFile} \cup SourceFiles(1)],
          out \in [OutputPaths -> {NoFile} \cup OutputFiles(1)],
          map \in [MapPaths -> {NoFile} \cup (IF css_map THEN MapFiles(1) ELSE {})] :
         fs = src @@ out @@ map
    /\ Cardinality(Entries(fs)) <= MaxSources
    /\ Cardinality(Malformed(fs)) <= MaxBad
    /\ Cardinality(Maps(fs)) <= MaxMaps
    /\ source_cache = EmptyDict
    /\ files_cache = EmptyDict
    /\ call = NoCall
    /\ ret = NoRet
    /\ compiled = {}
    /\ threads = [t \in Threads |-> Off]

\* ------------------------------------------------------------- the files change
Outside ==
    /\ call' = NoCall
    /\ ret' = NoRet
    /\ compiled' = {}
    /\ UNCHANGED <<css_map, source_cache, files_cache, threads>>

Tick ==
    /\ now < MaxTime
    /\ now' = now + 1
    /\ UNCHANGED fs
    /\ Outside

\* A source is created, edited or touched: its text is good or malformed.
WriteSource(p, content) ==
    /\ fs[p].kind # "dir"
    /\ Cardinality(Entries(fs) \cup {p}) <= MaxSources
    /\ fs' = [fs EXCEPT ![p] = RegFile(now, content)]
    /\ Cardinality(Malformed(fs')) <= MaxBad
    /\ UNCHANGED now
    /\ Outside

\* A directory appears where a source could be.
MakeDir(p) ==
    /\ fs[p] = NoFile
    /\ Cardinality(Entries(fs) \cup {p}) <= MaxSources
    /\ fs' = [fs EXCEPT ![p] = DirEntry]
    /\ UNCHANGED now
    /\ Outside

\* A source, an output or a map is removed by hand.
Remove(p) ==
    /\ fs[p] # NoFile
    /\ fs' = [fs EXCEPT ![p] = NoFile]
    /\ UNCHANGED now
    /\ Outside

\* The process restarts: a new ScssFinder over the same directories.
Restart ==
    /\ source_cache' = EmptyDict
    /\ files_cache' = EmptyDict
    /\ call' = NoCall
    /\ ret' = NoRet
    /\ compiled' = {}
    /\ UNCHANGED <<fs, now, css_map, threads>>

\* ------------------------------------------------------------- find and list
\* Lines 178-181: the lookup after the pass.
FindResult(cache, serve, path, all) ==
    IF serve /\ path \in DOMAIN cache
    THEN [raised |-> FALSE, scalar |-> ~all, items |-> << as_posix(cache[path]) >>]
    ELSE [raised |-> FALSE, scalar |-> FALSE, items |-> <<>>]

\* Lines 188-190: the pairs list() yields, each with self.storage.
ListResult(cache, serve) ==
    IF serve /\ cache # EmptyDict
    THEN [raised |-> FALSE, scalar |-> FALSE,
          items |-> {<<path, "storage">> : path \in DOMAIN cache}]
    ELSE [raised |-> FALSE, scalar |-> FALSE, items |-> {}]

\* The pass of a call: the state it leaves, also when it raised.
Pass(st) ==
    /\ fs' = st.fs
    /\ source_cache' = st.source_cache
    /\ files_cache' = st.files_cache
    /\ compiled' = st.compiled
    /\ UNCHANGED <<now, css_map, threads>>

\* ScssFinder.find (lines 173-181), st being what self.compile_scss() leaves.
Find(st, path, all, serve) ==
    /\ Pass(st)
    /\ call' = [op |-> "find", path |-> path, all |-> all, serve |-> serve]
    /\ ret' = IF st.raised THEN Raised
              ELSE FindResult(st.files_cache, serve, path, all)

\* ScssFinder.list (lines 183-190), consumed to its end.
List(st, serve) ==
    /\ Pass(st)
    /\ call' = [op |-> "list", path |-> "", all |-> FALSE, serve |-> serve]
    /\ ret' = IF st.raised THEN Raised
              ELSE ListResult(st.files_cache, serve)

\* A call on the finder: the pass it starts with sees the candidates in one of
\* the orders the directory walk can give.
Query ==
    \E st \in {compile_scss(fs, source_cache, candidates, css_map, now) :
                candidates \in ScanOrders(fs, scss_compile)} :
      \/ \E path \in QueryPaths, all \in BOOLEAN, serve \in BOOLEAN :
            Find(st, path, all, serve)
      \/ \E serve \in BOOLEAN : List(st, serve)

Next ==
    \/ Tick
    \/ \E p \in SourcePaths, c \in {"ok", "bad"} : WriteSource(p, c)
    \/ \E p \in SourcePaths : MakeDir(p)
    \/ \E p \in AllPaths : Remove(p)
    \/ Restart
    \/ Query

Spec == Init /\ [][Next]_vars

\* ------------------------------------------------------------- a call, line by line
\* The same calls followed step by step: each thread of Threads that is not
\* off runs find() or list(), and the steps of different threads interleave.
\* The files change only while no call is in progress.

\* Lines 177/187 and 102-103: the call enters compile_scss, which empties the
\* served index; candidates is what the globs will yield.
Begin(t, op) ==
    /\ threads[t].pc = "idle"
    /\ \E candidates \in ScanOrders(fs, scss_compile) :
          threads' = [threads EXCEPT ![t] =
                         [Idle EXCEPT !.pc = "loop", !.op = op, !.todo = candidates]]
    /\ files_cache' = EmptyDict
    /\ UNCHANGED <<fs, now, css_map, source_cache, call, ret, compiled>>

\* Lines 112-142: the next candidate is stat'ed, entered in the served index
\* and judged: skipped, recorded as up to date, or to be generated.
Evaluate(t) ==
    LET th == threads[t]
        scss_file == Head(th.todo)
        scss_stat == path_stat(fs, scss_file)
        outpath == output_path(scss_file)
        mappath == map_path(outpath)
        seen == [th EXCEPT !.checked = Append(@, scss_file)]
    IN  /\ th.pc = "loop"
        /\ th.todo # <<>>
        /\ IF scss_stat = NoFile \/ scss_stat.kind # "reg"
           THEN /\ threads' = [threads EXCEPT ![t] = [th EXCEPT !.todo = Tail(@)]]
                /\ UNCHANGED <<files_cache, source_cache>>
           ELSE /\ files_cache' = Put(files_cache, relative_posix(outpath), outpath)
                /\ IF Unchanged(source_cache, scss_file, scss_stat)
                   THEN /\ threads' = [threads EXCEPT ![t] = [seen EXCEPT !.todo = Tail(@)]]
                        /\ UNCHANGED source_cache
                   ELSE IF OutputUpToDate(fs, outpath, mappath, scss_stat.mtime, css_map)
                   THEN /\ source_cache' = Put(source_cache, scss_file, scss_stat.mtime)
                        /\ threads' = [threads EXCEPT ![t] =
                                          [seen EXCEPT !.todo = Tail(@),
                                                       !.recorded = @ \cup {scss_file}]]
                   ELSE /\ threads' = [threads EXCEPT ![t] =
                                          [seen EXCEPT !.pc = "open",
                                                       !.cached_mtime = scss_stat.mtime]]
                        /\ UNCHANGED source_cache
        /\ UNCHANGED <<fs, now, css_map, call, ret, compiled>>

\* Line 145: outpath.open('w+') creates or truncates the output.
Open(t) ==
    LET th == threads[t]
    IN  /\ th.pc = "open"
        /\ fs' = [fs EXCEPT ![output_path(Head(th.todo))] = RegFile(now, "")]
        /\ threads' = [threads EXCEPT ![t] = [th EXCEPT !.pc = "compile"]]
        /\ UNCHANGED <<now, css_map, source_cache, files_cache, call, ret, compiled>>

\* Lines 146-158: sass.compile and the write of its text; the with block
\* closes the file.  A CompileError leaves find()/list().
Compile(t) ==
    LET th == threads[t]
        scss_file == Head(th.todo)
        called == [th EXCEPT !.log = Append(@, scss_file)]
    IN  /\ th.pc = "compile"
        /\ IF SassFails(fs, scss_file)
           THEN /\ threads' = [threads EXCEPT ![t] =
                                  [called EXCEPT !.pc = "done", !.ret = Raised]]
                /\ UNCHANGED fs
           ELSE /\ fs' = [fs EXCEPT ![output_path(scss_file)] = RegFile(now, "css")]
                /\ threads' = [threads EXCEPT ![t] = [called EXCEPT !.pc = "record"]]
        /\ UNCHANGED <<now, css_map, source_cache, files_cache, call, ret, compiled>>

\* Line 160: the mtime read at line 113 is recorded.
Record(t) ==
    LET th == threads[t]
        scss_file == Head(th.todo)
    IN  /\ th.pc = "record"
        /\ source_cache' = Put(source_cache, scss_file, th.cached_mtime)
        /\ threads' = [threads EXCEPT ![t] =
                          [th EXCEPT !.pc = "loop", !.todo = Tail(@),
                                     !.recorded = @ \cup {scss_file}]]
        /\ UNCHANGED <<fs, now, css_map, files_cache, call, ret, compiled>>

\* Lines 162-171, reached when the loops are exhausted.
ReconcileStep(t) ==
    LET th == threads[t]
        st == Reconcile([PassState(fs, source_cache) EXCEPT !.checked = th.checked])
    IN  /\ th.pc = "loop"
        /\ th.todo = <<>>
        /\ fs' = st.fs
        /\ source_cache' = st.source_cache
        /\ threads' = [threads EXCEPT ![t] = [th EXCEPT !.pc = "lookup"]]
        /\ UNCHANGED <<now, css_map, files_cache, call, ret, compiled>>

\* Lines 178-181: the lookup of find().
Lookup(t, path, all, serve) ==
    LET th == threads[t]
    IN  /\ th.pc = "lookup"
        /\ th.op = "find"
        /\ threads' = [threads EXCEPT ![t] =
              [th EXCEPT !.pc = "done",
                         !.call = [op |-> "find", path |-> path, all |-> all, serve |-> serve],
                         !.ret = FindResult(files_cache, serve, path, all)]]
        /\ UNCHANGED <<fs, now, css_map, source_cache, files_cache, call, ret, compiled>>

\* Lines 188-189: list() tests the served index and starts to iterate over it;
\* the dict iterator remembers the dict's length.
ListBegin(t, serve) ==
    LET th == threads[t]
        asked == [th EXCEPT !.call = [op |-> "list", path |-> "", all |-> FALSE, serve |-> serve]]
    IN  /\ th.pc = "lookup"
        /\ th.op = "list"
        /\ threads' = [threads EXCEPT ![t] =
              IF serve /\ files_cache # EmptyDict
              THEN [asked EXCEPT !.pc = "iter", !.size = Cardinality(DOMAIN files_cache)]
              ELSE [asked EXCEPT !.pc = "done"]]
        /\ UNCHANGED <<fs, now, css_map, source_cache, files_cache, call, ret, compiled>>

\* Lines 189-190: the next item of the iteration.  The iterator raises
\* RuntimeError when the dict's length is no longer the one it remembers;
\* otherwise it yields an entry it has not yielded yet, or ends.
ListNext(t) ==
    LET th == threads[t]
        yielded == {th.ret.items[i][1] : i \in 1..Len(th.ret.items)}
        left == DOMAIN files_cache \ yielded
    IN  /\ th.pc = "iter"
        /\ IF Cardinality(DOMAIN files_cache) # th.size
           THEN threads' = [threads EXCEPT ![t] = [th EXCEPT !.pc = "done", !.ret = Raised]]
           ELSE IF left = {}
           THEN threads' = [threads EXCEPT ![t] = [th EXCEPT !.pc = "done"]]
           ELSE \E path \in left :
                   threads' = [threads EXCEPT ![t] =
                       [th EXCEPT !.ret.items = Append(@, <<path, "storage">>)]]
        /\ UNCHANGED <<fs, now, css_map, source_cache, files_cache, call, ret, compiled>>

\* The caller has its result; the thread is free for the next call.
Return(t) ==
    /\ threads[t].pc = "done"
    /\ threads' = [threads EXCEPT ![t] = Idle]
    /\ UNCHANGED <<fs, now, css_map, source_cache, files_cache, call, ret, compiled>>

\* One step of a call in progress.
Step(t) ==
    \/ \E op \in {"find", "list"} : Begin(t, op)
    \/ Evaluate(t)
    \/ Open(t)
    \/ Compile(t)
    \/ Record(t)
    \/ ReconcileStep(t)
    \/ \E path \in QueryPaths, all \in BOOLEAN, serve \in BOOLEAN : Lookup(t, path, all, serve)
    \/ \E serve \in BOOLEAN : ListBegin(t, serve)
    \/ ListNext(t)
    \/ Return(t)

AllIdle == \A t \in Threads : threads[t].pc \in {"idle", "off"}

\* The files change between calls.
Change ==
    /\ AllIdle
    /\ \/ Tick
       \/ \E p \in SourcePaths, c \in {"ok", "bad"} : WriteSource(p, c)
       \/ \E p \in SourcePaths : MakeDir(p)
       \/ \E p \in AllPaths : Remove(p)
       \/ Restart

\* What the directories hold when the finder is constructed, the clock showing t.
Disk(t) ==
    /\ now = t
    /\ css_map \in BOOLEAN
    /\ \E src \in [SourcePaths -> {NoFile} \cup SourceFiles(t)],
          out \in [OutputPaths -> {NoFile} \cup OutputFiles(t)],
          map \in [MapPaths -> {NoFile} \cup (IF css_map THEN MapFiles(t) ELSE {})] :
         fs = src @@ out @@ map
    /\ Cardinality(Entries(fs)) <= MaxSources
    /\ Cardinality(Malformed(fs)) <= MaxBad
    /\ Cardinality(Maps(fs)) <= MaxMaps
    /\ source_cache = EmptyDict
    /\ files_cache = EmptyDict
    /\ call = NoCall
    /\ ret = NoRet
    /\ compiled = {}

\* One thread calls the finder; the files change between its calls.
InitSteps ==
    /\ Disk(1)
    /\ threads = [t \in Threads |-> IF t = "main" THEN Idle ELSE Off]

NextSteps == Change \/ \E t \in Threads : Step(t)

SpecSteps == InitSteps /\ [][NextSteps]_vars

\* Two threads call the same finder over files that do not change and that
\* all compile; no maps are requested.
InitThreads ==
    /\ Disk(MaxTime)
    /\ Malformed(fs) = {}
    /\ ~css_map
    /\ threads = [t \in Threads |-> Idle]

NextThreads == \E t \in Threads : Step(t)

SpecThreads == InitThreads /\ [][NextThreads]_vars

\* ------------------------------------------------------------- vocabulary of the claims
\* The found-set of a pass over these files: the regular files that one of
\* the configured patterns matches (what lines 111-120 append to checked).
Found(files) ==
    {p \in SourcePaths : /\ files[p].kind = "reg"
                         /\ \E i \in 1..Len(scss_compile) : GlobMatch(scss_compile[i], p)}

\* The served-relative path of a source's output.
ServedPath(f) == relative_posix(output_path(f))

\* The state is the one a call has just left / the step is a call.
IsQuery == call.op \in {"find", "list"}
QueryStep == call'.op \in {"find", "list"}

\* The cache holds the source's current mtime.
Fresh(f) == f \in DOMAIN source_cache /\ source_cache[f] = fs[f].mtime

\* Every found source is cached with its current mtime and nothing else is cached.
AllFresh == DOMAIN source_cache = Found(fs) /\ \A f \in Found(fs) : Fresh(f)

\* The last call handed a malformed source to the compiler.
CompileFailed == \E f \in compiled : SassFails(fs, f)

\* ------------------------------------------------------------- C1
\* All found sources were cached, then s alone was modified: its mtime is later
\* than the cached one (and, the clock being what stamps files, no earlier than
\* the mtime of the output the earlier pass wrote); every other found source
\* is still fresh and nothing else is cached.
C1_Touched(s) ==
    /\ s \in DOMAIN source_cache
    /\ source_cache[s] < fs[s].mtime
    /\ fs[output_path(s)].mtime <= fs[s].mtime
    /\ s \in Found(fs)
    /\ Cardinality(Found(fs)) >= 2
    /\ DOMAIN source_cache = Found(fs)
    /\ \A o \in Found(fs) \ {s} : Fresh(o)

C2_FindLooksUp ==
    call.op = "find" =>
        IF call.serve /\ \E f \in Found(fs) : ServedPath(f) = call.path
        THEN /\ ~ret.raised
             /\ ret.scalar = ~call.all
             /\ \E f \in Found(fs) :
                   /\ ServedPath(f) = call.path
                   /\ ret.items = << as_posix(output_path(f)) >>
        ELSE ret = [raised |-> FALSE, scalar |-> FALSE, items |-> <<>>]

C4_Deleted(d) ==
    /\ d \in DOMAIN source_cache
    /\ fs[d] = NoFile
    /\ DOMAIN source_cache \ {d} = Found(fs)
    /\ Found(fs) # {}
    /\ \A o \in Found(fs) : Fresh(o)

C5_OutputResurrection ==
    [][\A s \in SourcePaths :
         (/\ QueryStep
          /\ s \in Found(fs)
          /\ Fresh(s)
          /\ \/ fs[output_path(s)] = NoFile
             \/ fs[output_path(s)].mtime <= source_cache[s])
         => /\ s \in compiled'
            /\ fs'[output_path(s)] # NoFile]_vars

\* ------------------------------------------------------------- C6
\* C6 as stated: a pass in which a compilation failed still runs to its end:
\* the served index holds every found source, every other found source has
\* been brought up to date (its mtime is recorded), and the reconcile step has
\* run (no source that was not found is still cached).
C6_PartialFailure ==
    (IsQuery /\ CompileFailed) =>
        /\ \A f \in Found(fs) : ServedPath(f) \in DOMAIN files_cache
        /\ \A f \in Found(fs) \ Malformed(fs) : Fresh(f)
        /\ DOMAIN source_cache \subseteq Found(fs)

\* ------------------------------------------------------------- C7
\* C7 as stated: the pass in which the compilation of a source fails leaves
\* that source's cache entry as it was, and the next pass, the source file
\* being unchanged, compiles that source again.
C7_RetryAfterFailure ==
    [][\A f \in SourcePaths :
         /\ (QueryStep /\ f \in compiled' /\ SassFails(fs', f)) =>
               /\ (f \in DOMAIN source_cache') = (f \in DOMAIN source_cache)
               /\ f \in DOMAIN source_cache => source_cache'[f] = source_cache[f]
         /\ (QueryStep /\ IsQuery /\ f \in compiled /\ SassFails(fs, f)) =>
               f \in compiled']_vars

\* ------------------------------------------------------------- C8
\* C8 as stated: after every pass the served index has exactly one entry for
\* the output of every found source, each the source's derived output path,
\* and no other entry.
C8_DiscoveryCompleteness ==
    IsQuery =>
        /\ DOMAIN files_cache = {ServedPath(f) : f \in Found(fs)}
        /\ \A f \in Found(fs) : files_cache[ServedPath(f)] = output_path(f)

\* ------------------------------------------------------------- C9
\* C9 as stated: list() runs a pass and yields one (served path, storage) pair
\* for every key of the served index that pass built, which is the found-set's,
\* when serving is enabled, and nothing when it is disabled.
C9_ListEnumerates ==
    call.op = "list" =>
        /\ ~ret.raised
        /\ ret.items = IF call.serve
                       THEN {<<ServedPath(f), "storage">> : f \in Found(fs)}
                       ELSE {}

C11_CacheWithinFound ==
    IsQuery => DOMAIN source_cache \subseteq Found(fs)

\* ------------------------------------------------------------- C13
\* C13 as stated: with maps requested, a pass that compiles a source
\* successfully leaves the map file next to the output (same directory, same
\* stem, extension map), written by that compilation and so newer than the
\* mtime the pass recorded.
C13_MapWritten ==
    [][\A s \in SourcePaths :
         (QueryStep /\ css_map /\ s \in compiled' /\ ~SassFails(fs', s)) =>
            /\ fs'[map_path(output_path(s))].kind = "reg"
            /\ fs'[map_path(output_path(s))].mtime = now]_vars

\* ------------------------------------------------------------- C14
\* C14 as stated: with maps requested, a pass that reaches its reconcile step
\* removes, for a cached source that it does not find, the cache entry, the
\* output file and the map file.
C14_ReconcileRemovesMap ==
    [][\A d \in SourcePaths :
         (/\ QueryStep
          /\ css_map
          /\ ~ret'.raised
          /\ d \in DOMAIN source_cache
          /\ d \notin Found(fs))
         => /\ d \notin DOMAIN source_cache'
            /\ fs'[output_path(d)] = NoFile
            /\ fs'[map_path(output_path(d))] = NoFile]_vars

\* ------------------------------------------------------------- C18
\* C18 as stated: a pass in which the compilation of a source fails leaves
\* that source's existing output file with the content it had before the pass.
C18_FailureKeepsOutput ==
    [][\A s \in SourcePaths :
         (/\ QueryStep
          /\ s \in compiled'
          /\ SassFails(fs', s)
          /\ fs[output_path(s)] # NoFile)
         => fs'[output_path(s)].content = fs[output_path(s)].content]_vars

\* ------------------------------------------------------------- C19
\* C19 as stated: no pass deletes a file that is the output path of a source
\* it found; so a found source that is cached after the pass still has the
\* output file it had or was given.
C19_ReconcileKeepsNeeded ==
    [][QueryStep =>
         \A f \in Found(fs') :
            (fs[output_path(f)] # NoFile \/ f \in compiled') =>
                fs'[output_path(f)] # NoFile]_vars

\* ------------------------------------------------------------- C17
\* C17: after a pass, every found source that the pass compiled successfully,
\* or that a pass which ran to its end did not compile (it was confirmed
\* fresh), is cached with the mtime the source had in that pass; so the entry
\* is created by the first successful compilation and follows the mtime.
C17_CacheIsMtime ==
    [][QueryStep =>
         \A f \in Found(fs) :
            (\/ (f \in compiled' /\ ~SassFails(fs, f))
             \/ (f \notin compiled' /\ ~ret'.raised))
            => /\ f \in DOMAIN source_cache'
               /\ source_cache'[f] = fs[f].mtime
               /\ fs'[f] = fs[f]]_vars

\* Reached: a source cached with an earlier mtime than it has now (it was
\* modified after the pass that cached it) beside a source that is not cached;
\* the next pass moves the first entry and creates the second.
C17_Witness ==
    \E f \in Found(fs), g \in Found(fs) :
        /\ f \in DOMAIN source_cache
        /\ source_cache[f] < fs[f].mtime
        /\ ~SassFails(fs, f)
        /\ g \notin DOMAIN source_cache
        /\ ~SassFails(fs, g)

\* ------------------------------------------------------------- calls followed line by line
\* The step is thread t's judgement of the regular file s (lines 113-142).
Evaluating(t, s) ==
    /\ threads[t].pc = "loop"
    /\ threads[t].todo # <<>>
    /\ Head(threads[t].todo) = s
    /\ threads'[t] # threads[t]
    /\ fs[s].kind = "reg"

\* The output p is open for writing: opened by line 145, its text not yet written.
BeingWritten(p) ==
    \E u \in Threads :
        /\ threads[u].pc = "compile"
        /\ output_path(Head(threads[u].todo)) = p

\* ------------------------------------------------------------- C12
\* Rules 1 and 2: the cache holds no mtime for s, or another than s has now.
C12_Stale(s) == s \notin DOMAIN source_cache \/ source_cache[s] # fs[s].mtime

\* C12 as stated: a found source for which the cache holds no mtime, or another
\* mtime than the source has, is compiled by the pass whatever the state of its
\* output file.
C12_Original ==
    [][\A t \in Threads, s \in SourcePaths :
         (Evaluating(t, s) /\ C12_Stale(s)) => threads'[t].pc = "open"]_vars

\* C12 amended: such a source is compiled unless its output file exists with an
\* mtime later than the source's (and, maps being requested, its map file does
\* too); then it is not compiled, and the source's mtime is recorded.
C12_StalenessRules ==
    [][\A t \in Threads, s \in SourcePaths :
         (Evaluating(t, s) /\ C12_Stale(s)) =>
            IF /\ fs[output_path(s)].kind = "reg"
               /\ fs[output_path(s)].mtime > fs[s].mtime
               /\ css_map => /\ fs[map_path(output_path(s))].kind = "reg"
                             /\ fs[map_path(output_path(s))].mtime > fs[s].mtime
            THEN /\ threads'[t].pc = "loop"
                 /\ threads'[t].log = threads[t].log
                 /\ source_cache' = Put(source_cache, s, fs[s].mtime)
            ELSE /\ threads'[t].pc = "open"
                 /\ source_cache' = source_cache]_vars

\* Reached: the pass is about to judge a source that is cached with an earlier
\* mtime than it has now and whose output is on disk, not newer than it.
C12_Witness ==
    \E t \in Threads, s \in SourcePaths :
        /\ threads[t].pc = "loop"
        /\ threads[t].todo # <<>>
        /\ Head(threads[t].todo) = s
        /\ fs[s].kind = "reg"
        /\ s \in DOMAIN source_cache
        /\ source_cache[s] < fs[s].mtime
        /\ fs[output_path(s)].kind = "reg"
        /\ fs[output_path(s)].mtime <= fs[s].mtime

\* ------------------------------------------------------------- C15
\* C15: a pass hands no source to the compiler twice, also when several
\* patterns match it, and the served index holds one entry for the output of
\* every source the pass has checked.
C15_Deduplication ==
    \A t \in Threads :
        /\ \A i, j \in DOMAIN threads[t].log :
              threads[t].log[i] = threads[t].log[j] => i = j
        /\ \A i \in DOMAIN threads[t].checked :
              Cardinality({k \in DOMAIN files_cache :
                              files_cache[k] = output_path(threads[t].checked[i])}) = 1

\* Reached: a pass has seen a.scss under both patterns and has compiled it.
C15_Witness ==
    \E t \in Threads :
        /\ InSeq(a_scss, threads[t].log)
        /\ Cardinality({i \in DOMAIN threads[t].checked : threads[t].checked[i] = a_scss}) = 2

\* ------------------------------------------------------------- C16
\* C16 as stated: no state shows a cache entry set by the pass in progress for
\* a source whose output file is absent or open for writing.
C16_Original ==
    \A t \in Threads, s \in SourcePaths :
        (s \in threads[t].recorded /\ s \in DOMAIN source_cache) =>
            /\ fs[output_path(s)].kind = "reg"
            /\ ~BeingWritten(output_path(s))

\* ------------------------------------------------------------- C20
\* C20 as stated: when calls of two threads interleave over unchanged files,
\* no call raises, every find(p) with serving enabled for the served path p of
\* a found source returns that output's path, every list() with serving
\* enabled yields each served path exactly once, and when no call is in
\* progress the cache holds exactly the found sources.
C20_ConcurrentQueries ==
    \A t \in Threads :
        threads[t].pc = "done" =>
            /\ ~threads[t].ret.raised
            /\ \A f \in Found(fs) :
                  (/\ threads[t].call.op = "find"
                   /\ threads[t].call.serve
                   /\ threads[t].call.path = ServedPath(f))
                  => threads[t].ret.items = << as_posix(output_path(f)) >>
            /\ (threads[t].call.op = "list" /\ threads[t].call.serve) =>
                  /\ {threads[t].ret.items[i][1] : i \in DOMAIN threads[t].ret.items}
                        = {ServedPath(f) : f \in Found(fs)}
                  /\ Len(threads[t].ret.items)
                        = Cardinality({ServedPath(f) : f \in Found(fs)})
            /\ (\A u \in Threads : threads[u].pc \in {"idle", "done"}) =>
                  DOMAIN source_cache = Found(fs)

====
